---- MODULE Spec2Model ----
(***************************************************************************)
(* Model of src/socket.rs: the Socket handle (fd + lifecycle state), its   *)
(* operations new / bind / listen / accept / drop, the raw close(sock.fd)  *)
(* calls made by the module's tests, and the part of the OS descriptor     *)
(* table those calls act on.                                               *)
(***************************************************************************)
EXTENDS Integers, Sequences, FiniteSets, TLC

\* ---------------------------------------------------------------- bounds
MaxHandles == 2
MaxFds == 2

Handles == 1..MaxHandles
\* descriptor numbers the OS may hand out (0..2 are the standard streams)
FDs == 3..(2 + MaxFds)

\* ------------------------------------------------------------ enum, errors
SocketState == {"Created", "Bound", "Listening", "Connected", "Closed"}

\* slot of `sock` that holds no Socket value (nothing constructed there yet)
NoSocket == [fd |-> -1, state |-> "None"]

ErrCreate == "Failed to create a socket"
ErrBindState == "Socket already bound our connected"
ErrParse == "Ivalid IP address"
ErrBind == "Failed to bind socket"
ErrListenState == "Socket must be bound before listening"
ErrListen == "Failed to listen on socket"
ErrAcceptState == "Socket is not listening"
ErrAccept == "Failed to accept connection"

\* ------------------------------------------------- address strings (inputs)
\* a &str is modelled as the sequence of its characters
Digits == <<"0", "1", "2", "3", "4", "5", "6", "7", "8", "9">>

IsDigit(c) == \E i \in 1..10 : Digits[i] = c

DigitVal(c) == (CHOOSE i \in 1..10 : Digits[i] = c) - 1

\* "0.0.0.0", the address every test binds to
StrAny == <<"0", ".", "0", ".", "0", ".", "0">>
StrLoop == <<"1", "2", "7", ".", "0", ".", "0", ".", "1">>
\* the literal of tests::test_bind_socket_invalid_fd
StrTestBad == <<"-", "d", "v", "d", "d", "f", "v", "f", "d", "v", "d", "v", "d", "0", ".", "0", ".", "0", ".", "0">>
StrOctet256 == <<"0", ".", "0", ".", "0", ".", "2", "5", "6">>
StrThreeParts == <<"1", ".", "2", ".", "3">>
StrLeadingZero == <<"0", "1", ".", "0", ".", "0", ".", "0">>

WellFormed == {StrAny, StrLoop}
Malformed == {StrTestBad, StrOctet256, StrThreeParts, StrLeadingZero}
IpStrings == WellFormed \cup Malformed

Ports == {0, 1150}
EphemeralPorts == {49152}
Backlogs == {1}

\* ----------------------------------------------------------- Ipv4Addr parse
None == <<"None">>

RECURSIVE SplitDots(_, _, _)
\* the '.'-separated fields of s, left to right (cur is the field being read)
SplitDots(s, cur, acc) ==
    IF s = << >> THEN Append(acc, cur)
    ELSE IF Head(s) = "." THEN SplitDots(Tail(s), << >>, Append(acc, cur))
    ELSE SplitDots(Tail(s), Append(cur, Head(s)), acc)

RECURSIVE NumVal(_, _)
NumVal(f, acc) == IF f = << >> THEN acc ELSE NumVal(Tail(f), acc * 10 + DigitVal(Head(f)))

\* OctetOk without the u8 range check
OctetOkNoRange(f) ==
    /\ Len(f) \in 1..3
    /\ \A i \in 1..Len(f) : IsDigit(f[i])
    /\ (Len(f) > 1 => f[1] # "0")

\* one octet: 1..3 decimal digits, no leading zero on a multi-digit field, fits u8
OctetOk(f) ==
    /\ Len(f) \in 1..3
    /\ \A i \in 1..Len(f) : IsDigit(f[i])
    /\ (Len(f) > 1 => f[1] # "0")
    /\ NumVal(f, 0) <= 255

\* str::parse::<Ipv4Addr>(): the four octets, or None
ParseIpv4(s) ==
    IF Len(s) > 15 THEN None
    ELSE LET fs == SplitDots(s, << >>, << >>)
         IN IF Len(fs) = 4 /\ \A i \in 1..4 : OctetOk(fs[i])
            THEN <<NumVal(fs[1], 0), NumVal(fs[2], 0), NumVal(fs[3], 0), NumVal(fs[4], 0)>>
            ELSE None

\* --------------------------------------------------------------- variables
VARIABLES
    sock,        \* sock[h]: the Socket value held in slot h (fd, state), or NoSocket
    origin,      \* origin[h]: "none" | "new" | "accept": which constructor made h
    scope,       \* scope[h]: position of h's owner: "unborn" | "inscope" |
                 \*   "rawclosed" (the owner has run close(sock.fd), scope end is next) | "ended"
    fdtab,       \* the process's descriptor table, as far as sockets are concerned
    closeCalls,  \* closeCalls[h]: OS close calls issued so far on h's descriptor for h
    ret,         \* what the last operation was, what it saw and what it returned
    alive        \* the process is running: no operation has terminated it

vars == <<sock, origin, scope, fdtab, closeCalls, ret, alive>>

\* ------------------------------------------------------- the OS (extern "C")
AF_INET == 2
IpAny == <<0, 0, 0, 0>>

ClosedFd == [open |-> FALSE, bound |-> FALSE, ip |-> None, port |-> 0, listening |-> FALSE, conn |-> FALSE]
FreshFd == [open |-> TRUE, bound |-> FALSE, ip |-> None, port |-> 0, listening |-> FALSE, conn |-> FALSE]
ConnFd == [open |-> TRUE, bound |-> FALSE, ip |-> None, port |-> 0, listening |-> FALSE, conn |-> TRUE]

FreeFds(tab) == {f \in FDs : ~tab[f].open}

\* the descriptor a call that opens one returns: the lowest-numbered one not open
\* (none if the table is full)
LowestFree(tab) == {f \in FreeFds(tab) : \A g \in FreeFds(tab) : f <= g}

IsOpen(tab, fd) == fd \in FDs /\ tab[fd].open

\* Every OS call is given as the set of its outcomes: the value it returns (res)
\* and the descriptor table it leaves (tab). -1 is always a possible return.
OSFail(tab) == [res |-> -1, tab |-> tab]

\* socket(AF_INET, SOCK_STREAM, 0): a descriptor that was not open, or -1
OSSocket(tab) ==
    {OSFail(tab)} \cup {[res |-> f, tab |-> [tab EXCEPT ![f] = FreshFd]] : f \in LowestFree(tab)}

\* u16::to_be, as the bytes the value occupies in memory
PortToBe(port) == <<port \div 256, port % 256>>

\* u32::from(Ipv4Addr): the octets as one big-endian number
U32FromIp(ip) == ((ip[1] * 256 + ip[2]) * 256 + ip[3]) * 256 + ip[4]

\* u32::from(ip).to_be(), as the bytes the value occupies in memory
AddrToBe(ip) ==
    LET n == U32FromIp(ip)
    IN <<n \div 16777216, (n \div 65536) % 256, (n \div 256) % 256, n % 256>>

\* the port the OS reads back from sin_port (network byte order)
NetPort(bytes) == bytes[1] * 256 + bytes[2]

\* some other open socket is bound to a colliding address (no SO_REUSEADDR is set)
AddrInUse(tab, fd, ip, port) ==
    \E g \in FDs \ {fd} :
        /\ tab[g].open /\ tab[g].bound /\ tab[g].port = port
        /\ (tab[g].ip = ip \/ ip = IpAny \/ tab[g].ip = IpAny)

\* the ports bind may end up with: the requested one, or for port 0 a free ephemeral one
AssignablePorts(tab, fd, ip, port) ==
    IF port # 0 THEN (IF AddrInUse(tab, fd, ip, port) THEN {} ELSE {port})
    ELSE {p \in EphemeralPorts : ~AddrInUse(tab, fd, ip, p)}

\* bind(sockfd, addr, addrlen) cannot succeed: EBADF, EINVAL (bound or connected), EADDRINUSE
OSBindMustFail(tab, fd, addr) ==
    \/ ~IsOpen(tab, fd)
    \/ tab[fd].bound
    \/ tab[fd].conn
    \/ addr.sin_family # AF_INET
    \/ AssignablePorts(tab, fd, addr.sin_addr, NetPort(addr.sin_port)) = {}

OSBound(tab, fd, ip, port) == [tab EXCEPT ![fd].bound = TRUE, ![fd].ip = ip, ![fd].port = port]

\* bind(sockfd, addr, addrlen): 0 and the socket bound, or -1 (which the OS may
\* also return for EACCES, EADDRNOTAVAIL, ENOMEM, a port another process holds, ...)
OSBind(tab, fd, addr) ==
    {OSFail(tab)} \cup
    (IF OSBindMustFail(tab, fd, addr) THEN {}
     ELSE {[res |-> 0, tab |-> OSBound(tab, fd, addr.sin_addr, p)] :
              p \in AssignablePorts(tab, fd, addr.sin_addr, NetPort(addr.sin_port))})

\* listen(sockfd, backlog) cannot succeed: EBADF, a connected socket, or an
\* unbound one for which no ephemeral port is left
OSListenMustFail(tab, fd) ==
    \/ ~IsOpen(tab, fd)
    \/ tab[fd].conn
    \/ (~tab[fd].bound /\ AssignablePorts(tab, fd, IpAny, 0) = {})

\* listen(sockfd, backlog): 0 and the socket listening (an unbound socket is first
\* bound to an ephemeral port), or -1
OSListen(tab, fd, backlog) ==
    {OSFail(tab)} \cup
    (IF OSListenMustFail(tab, fd) THEN {}
     ELSE IF tab[fd].bound THEN {[res |-> 0, tab |-> [tab EXCEPT ![fd].listening = TRUE]]}
     ELSE {[res |-> 0, tab |-> [OSBound(tab, fd, IpAny, p) EXCEPT ![fd].listening = TRUE]] :
              p \in AssignablePorts(tab, fd, IpAny, 0)})

\* accept(sockfd, NULL, NULL): the new descriptor of a queued connection, or -1
OSAccept(tab, fd) ==
    {OSFail(tab)} \cup
    (IF IsOpen(tab, fd) /\ tab[fd].listening
     THEN {[res |-> f, tab |-> [tab EXCEPT ![f] = ConnFd]] : f \in LowestFree(tab)}
     ELSE {})

\* close(fd): the descriptor is free afterwards (EBADF if it was not open)
OSClose(tab, fd) == IF IsOpen(tab, fd) THEN [tab EXCEPT ![fd] = ClosedFd] ELSE tab

\* ------------------------------------------------------------------- state
\* no address argument recorded
NoArg == [ip |-> << >>, port |-> 0]

\* ret.op / ret.h: the operation and the slot it was called on; ret.res: "Ok" or the
\* Err string; ret.oscall: the OS call it issued ("none" if it issued none);
\* ret.osres: the value that OS call returned (0 if none was issued);
\* ret.arg: the address string and port a bind that passed its state check was
\* given; ret.new: the slot of the handle it returned
NoRet == [op |-> "init", h |-> 0, res |-> "Ok", oscall |-> "none", osres |-> 0, arg |-> NoArg, new |-> 0]

Init ==
    /\ sock = [h \in Handles |-> NoSocket]
    /\ origin = [h \in Handles |-> "none"]
    /\ scope = [h \in Handles |-> "unborn"]
    /\ fdtab = [f \in FDs |-> ClosedFd]
    /\ closeCalls = [h \in Handles |-> 0]
    /\ ret = NoRet
    /\ alive = TRUE

\* a slot that holds no handle any more: never used, or its handle's scope has ended
Vacant(h) == scope[h] \in {"unborn", "ended"}

\* the slot the next Socket value is placed in (0: none left)
NextSlot == IF \E h \in Handles : Vacant(h)
            THEN CHOOSE h \in Handles : Vacant(h) /\ \A k \in Handles : k < h => ~Vacant(k)
            ELSE 0

\* handles the owner may still call methods on: in scope, or kept past their release
Callable(h) == scope[h] \in {"inscope", "ended"}

\* the address record bind builds
SockaddrIn(ip, port) ==
    [sin_len |-> 16, sin_family |-> AF_INET, sin_port |-> PortToBe(port),
     sin_addr |-> AddrToBe(ip), sin_zero |-> <<0, 0, 0, 0, 0, 0, 0, 0>>]

\* -------------------------------------------------------------- operations
\* a failure reported by panicking: the message is printed and the process ends
ErrPanics(msg) == [res |-> msg, alive |-> FALSE]

\* Err(msg.into()): the failure is a value handed to the caller, who runs on
Err(msg) == [res |-> msg, alive |-> TRUE]

\* the checks of the raw status each OS call returned
\* new() testing the descriptor for 0 instead of -1
SocketFailedOnZero(fd) == fd = 0

SocketFailed(fd) == fd = -1

\* BindFailed testing for a status the OS never returns
BindFailedNever(res) == res = 1

\* bind taking the OS answer 0 for a failure too
BindFailedOnZero(res) == res <= 0

BindFailed(res) == res = -1

\* listen taking every OS answer for success
ListenFailedNever(res) == res = 1

ListenFailed(res) == res = -1

AcceptFailed(client_fd) == client_fd = -1

\* Socket::new()
New ==
    /\ alive
    /\ NextSlot # 0
    /\ \E o \in OSSocket(fdtab) :
        /\ fdtab' = o.tab
        /\ IF SocketFailed(o.res)
           THEN /\ ret' = [NoRet EXCEPT !.op = "new", !.res = Err(ErrCreate).res, !.oscall = "socket", !.osres = o.res]
                /\ alive' = Err(ErrCreate).alive
                /\ UNCHANGED <<sock, origin, scope, closeCalls>>
           ELSE /\ sock' = [sock EXCEPT ![NextSlot] = [fd |-> o.res, state |-> "Created"]]
                /\ origin' = [origin EXCEPT ![NextSlot] = "new"]
                /\ scope' = [scope EXCEPT ![NextSlot] = "inscope"]
                /\ closeCalls' = [closeCalls EXCEPT ![NextSlot] = 0]
                /\ ret' = [NoRet EXCEPT !.op = "new", !.oscall = "socket", !.osres = o.res, !.new = NextSlot]
                /\ UNCHANGED alive

\* the state checks left out, and listen's check letting Created through
BindNoCheck(st) == TRUE

ListenNoCheck(st) == TRUE

ListenFromCreated(st) == st \in {"Created", "Bound"}

AcceptNoCheck(st) == TRUE

\* whether bind / listen / accept go on past their state check
BindAllowed(st) == st = "Created"

ListenAllowed(st) == st = "Bound"

AcceptAllowed(st) == st = "Listening"

\* ip.parse().map_err(..)?: the early return on a string that did not parse
ParseFailed(parsed) == parsed = None

\* bind parsing the address before it looks at the state
BindEarlyParseFirst(st, parsed) ==
    IF ParseFailed(parsed) THEN ErrParse
    ELSE IF ~BindAllowed(st) THEN ErrBindState
    ELSE "Ok"

\* the early return bind takes before it builds the address record: the state
\* check comes first, the parse second ("Ok": none is taken)
BindEarly(st, parsed) ==
    IF ~BindAllowed(st) THEN ErrBindState
    ELSE IF ParseFailed(parsed) THEN ErrParse
    ELSE "Ok"

\* Socket::bind(&mut self, ip, port)
Bind(h, ip, port) ==
    /\ alive
    /\ Callable(h)
    /\ LET r == [NoRet EXCEPT !.op = "bind", !.h = h]
           parsed == ParseIpv4(ip)
           addr == SockaddrIn(parsed, port)
           early == BindEarly(sock[h].state, parsed)
       IN IF early = ErrBindState
          THEN /\ ret' = [r EXCEPT !.res = Err(ErrBindState).res]
               /\ alive' = Err(ErrBindState).alive
               /\ UNCHANGED <<sock, origin, scope, fdtab, closeCalls>>
          ELSE IF early = ErrParse
          THEN /\ ret' = [r EXCEPT !.res = Err(ErrParse).res, !.arg = [ip |-> ip, port |-> port]]
               /\ alive' = Err(ErrParse).alive
               /\ UNCHANGED <<sock, origin, scope, fdtab, closeCalls>>
          ELSE \E o \in OSBind(fdtab, sock[h].fd, addr) :
                 /\ fdtab' = o.tab
                 /\ IF BindFailed(o.res)
                    THEN /\ ret' = [r EXCEPT !.res = Err(ErrBind).res, !.oscall = "bind", !.osres = o.res,
                                               !.arg = [ip |-> ip, port |-> port]]
                         /\ alive' = Err(ErrBind).alive
                         /\ UNCHANGED <<sock, origin, scope, closeCalls>>
                    ELSE /\ sock' = [sock EXCEPT ![h].state = "Bound"]
                         /\ ret' = [r EXCEPT !.oscall = "bind", !.osres = o.res,
                                               !.arg = [ip |-> ip, port |-> port]]
                         /\ UNCHANGED <<origin, scope, closeCalls, alive>>

\* Socket::listen(&mut self, backlog)
Listen(h, backlog) ==
    /\ alive
    /\ Callable(h)
    /\ LET r == [NoRet EXCEPT !.op = "listen", !.h = h]
       IN IF ~ListenAllowed(sock[h].state)
          THEN /\ ret' = [r EXCEPT !.res = Err(ErrListenState).res]
               /\ alive' = Err(ErrListenState).alive
               /\ UNCHANGED <<sock, origin, scope, fdtab, closeCalls>>
          ELSE \E o \in OSListen(fdtab, sock[h].fd, backlog) :
                 /\ fdtab' = o.tab
                 /\ IF ListenFailed(o.res)
                    THEN /\ ret' = [r EXCEPT !.res = Err(ErrListen).res, !.oscall = "listen", !.osres = o.res]
                         /\ alive' = Err(ErrListen).alive
                         /\ UNCHANGED <<sock, origin, scope, closeCalls>>
                    ELSE /\ sock' = [sock EXCEPT ![h].state = "Listening"]
                         /\ ret' = [r EXCEPT !.oscall = "listen", !.osres = o.res]
                         /\ UNCHANGED <<origin, scope, closeCalls, alive>>

\* accept returning its handle in the state new() gives
AcceptedAsCreated(client_fd) == [fd |-> client_fd, state |-> "Created"]

\* the Socket value accept returns for the descriptor the OS gave it
Accepted(client_fd) == [fd |-> client_fd, state |-> "Connected"]

\* accept marking the listener itself Connected
AcceptSelfConnected(self) == [self EXCEPT !.state = "Connected"]

\* accept borrows self immutably: the value of *self when accept returns
AcceptSelf(self) == self

\* Socket::accept(&self)
Accept(h) ==
    /\ alive
    /\ Callable(h)
    /\ LET r == [NoRet EXCEPT !.op = "accept", !.h = h]
       IN IF ~AcceptAllowed(sock[h].state)
          THEN /\ ret' = [r EXCEPT !.res = Err(ErrAcceptState).res]
               /\ alive' = Err(ErrAcceptState).alive
               /\ UNCHANGED <<sock, origin, scope, fdtab, closeCalls>>
          ELSE \E o \in OSAccept(fdtab, sock[h].fd) :
                 /\ fdtab' = o.tab
                 /\ IF AcceptFailed(o.res)
                    THEN /\ ret' = [r EXCEPT !.res = Err(ErrAccept).res, !.oscall = "accept", !.osres = o.res]
                         /\ alive' = Err(ErrAccept).alive
                         /\ UNCHANGED <<sock, origin, scope, closeCalls>>
                    ELSE /\ NextSlot # 0
                         /\ sock' = [sock EXCEPT ![h] = AcceptSelf(sock[h]), ![NextSlot] = Accepted(o.res)]
                         /\ origin' = [origin EXCEPT ![NextSlot] = "accept"]
                         /\ scope' = [scope EXCEPT ![NextSlot] = "inscope"]
                         /\ closeCalls' = [closeCalls EXCEPT ![NextSlot] = 0]
                         /\ ret' = [r EXCEPT !.oscall = "accept", !.osres = o.res, !.new = NextSlot]
                         /\ UNCHANGED alive

\* whether drop still has a descriptor to close
\* drop with its test inverted
DropClosesInverted(st) == st = "Closed"

DropCloses(st) == st # "Closed"

\* <Socket as Drop>::drop(&mut self): scope end, or a release trigger of a handle
\* whose scope has ended already
Drop(h) ==
    /\ alive
    /\ scope[h] # "unborn"
    /\ scope' = [scope EXCEPT ![h] = "ended"]
    /\ LET r == [NoRet EXCEPT !.op = "drop", !.h = h]
       IN IF DropCloses(sock[h].state)
          THEN /\ fdtab' = OSClose(fdtab, sock[h].fd)
               /\ closeCalls' = [closeCalls EXCEPT ![h] = @ + 1]
               /\ sock' = [sock EXCEPT ![h].state = "Closed"]
               /\ ret' = [r EXCEPT !.oscall = "close"]
               /\ UNCHANGED <<origin, alive>>
          ELSE /\ ret' = r
               /\ UNCHANGED <<sock, origin, fdtab, closeCalls, alive>>

\* unsafe { close(sock.fd); } at the end of a test body, the handle still in scope
RawClose(h) ==
    /\ alive
    /\ scope[h] = "inscope"
    /\ origin[h] = "new"
    /\ fdtab' = OSClose(fdtab, sock[h].fd)
    /\ closeCalls' = [closeCalls EXCEPT ![h] = @ + 1]
    /\ scope' = [scope EXCEPT ![h] = "rawclosed"]
    /\ ret' = [NoRet EXCEPT !.op = "rawclose", !.h = h, !.oscall = "close"]
    /\ UNCHANGED <<sock, origin, alive>>

Next ==
    \/ New
    \/ \E h \in Handles, ip \in IpStrings, port \in Ports : Bind(h, ip, port)
    \/ \E h \in Handles, backlog \in Backlogs : Listen(h, backlog)
    \/ \E h \in Handles : Accept(h)
    \/ \E h \in Handles : Drop(h)
    \/ \E h \in Handles : RawClose(h)

Spec == Init /\ [][Next]_vars

TypeOK ==
    /\ \A h \in Handles : sock[h] = NoSocket \/ (sock[h].fd \in FDs /\ sock[h].state \in SocketState)
    /\ \A h \in Handles : closeCalls[h] \in 0..2

\* ------------------------------------------------------------------ claims
\* handles that have not been released in any way: neither drop nor a raw close ran
Live(h) == scope[h] = "inscope"

\* the step is operation op called on slot h
Did(op, h) == ret'.op = op /\ ret'.h = h

\* the step keeps the handle of slot h (it does not place a new handle there)
Persists(h) == ~(Vacant(h) /\ scope'[h] = "inscope")

\* C1: however often and in whatever way a handle is released, at most one OS
\* close call is issued for its descriptor, and no release reports an error.
C1_AtMostOneClose ==
    /\ \A h \in Handles : closeCalls[h] <= 1
    /\ (ret.op \in {"drop", "rawclose"} => ret.res = "Ok")

\* C2: no two live handles hold the same descriptor value.
C2_NoSharedDescriptor ==
    \A h, g \in Handles : (h # g /\ Live(h) /\ Live(g)) => sock[h].fd # sock[g].fd

\* C3: bind on a handle that is not Created returns the invalid-state error,
\* issues no OS call and leaves the handle (state and descriptor) as it was.
C3_BindWrongState ==
    [][\A h \in Handles :
          (Did("bind", h) /\ sock[h].state # "Created")
              => /\ ret'.res = ErrBindState
                 /\ ret'.oscall = "none"
                 /\ sock' = sock
                 /\ fdtab' = fdtab]_vars

C3_Witness ==
    /\ ret.op = "bind" /\ ret.res = ErrBindState
    /\ sock[ret.h].state = "Listening"

\* C4: listen on a handle that is not Bound returns the invalid-state error,
\* issues no OS call and leaves the state as it was (Created stays Created).
C4_ListenWrongState ==
    [][\A h \in Handles :
          (Did("listen", h) /\ sock[h].state # "Bound")
              => /\ ret'.res = ErrListenState
                 /\ ret'.oscall = "none"
                 /\ sock' = sock
                 /\ fdtab' = fdtab]_vars

C4_Witness ==
    /\ ret.op = "listen" /\ ret.res = ErrListenState
    /\ sock[ret.h].state = "Created"

\* C5: accept on a handle that is not Listening returns the invalid-state error,
\* issues no OS call and creates no handle.
C5_AcceptWrongState ==
    [][\A h \in Handles :
          (Did("accept", h) /\ sock[h].state # "Listening")
              => /\ ret'.res = ErrAcceptState
                 /\ ret'.oscall = "none"
                 /\ ret'.new = 0
                 /\ sock' = sock /\ scope' = scope /\ origin' = origin
                 /\ fdtab' = fdtab]_vars

C5_Witness ==
    /\ ret.op = "accept" /\ ret.res = ErrAcceptState
    /\ sock[ret.h].state = "Bound"

\* the descriptors the step opened
Opened == {f \in FDs : ~fdtab[f].open /\ fdtab'[f].open}

\* C6: a successful accept on a Listening handle returns a new Connected handle
\* that owns the descriptor the OS call returned, which is not the listener's; a
\* failed OS call returns the accept error and no handle.
C6_AcceptResult ==
    [][\A h \in Handles :
          (Did("accept", h) /\ sock[h].state = "Listening")
              => /\ ret'.oscall = "accept"
                 /\ IF ret'.res = "Ok"
                    THEN /\ ret'.new \in Handles \ {h}
                         /\ Vacant(ret'.new) /\ scope'[ret'.new] = "inscope"
                         /\ sock'[ret'.new].state = "Connected"
                         /\ Opened = {sock'[ret'.new].fd}
                         /\ sock'[ret'.new].fd # sock[h].fd
                    ELSE /\ ret'.res = ErrAccept
                         /\ ret'.new = 0
                         /\ Opened = {}
                         /\ sock' = sock /\ scope' = scope /\ origin' = origin]_vars

C6_Witness ==
    /\ ret.op = "accept" /\ ret.res = "Ok" /\ ret.new # 0
    /\ sock[ret.new].state = "Connected"
    /\ sock[ret.h].state = "Listening"

\* C7: accept leaves the handle it is called on as it was: same state (a
\* Listening handle stays Listening), same descriptor, and the descriptor's
\* socket is not closed or otherwise changed by the call.
C7_AcceptFrame ==
    [][\A h \in Handles :
          Did("accept", h)
              => /\ sock'[h] = sock[h]
                 /\ scope'[h] = scope[h]
                 /\ (sock[h].fd \in FDs => fdtab'[sock[h].fd] = fdtab[sock[h].fd])]_vars

C7_Witness ==
    /\ ret.op = "accept" /\ ret.oscall = "accept" /\ ret.res = "Ok"
    /\ sock[ret.h].state = "Listening"
    /\ IsOpen(fdtab, sock[ret.h].fd) /\ fdtab[sock[ret.h].fd].listening
    /\ sock[ret.new].fd # sock[ret.h].fd

\* C8: a handle's state changes only Created -> Bound (successful bind),
\* Bound -> Listening (successful listen) or anything -> Closed (drop); Closed is
\* never left, and a handle made by new() is never Connected.
C8_Lifecycle ==
    [][\A h \in Handles :
          /\ (origin'[h] = "new" => sock'[h].state # "Connected")
          /\ Persists(h) =>
                \/ sock'[h].state = sock[h].state
                \/ /\ sock[h].state = "Created" /\ sock'[h].state = "Bound"
                   /\ Did("bind", h) /\ ret'.res = "Ok"
                \/ /\ sock[h].state = "Bound" /\ sock'[h].state = "Listening"
                   /\ Did("listen", h) /\ ret'.res = "Ok"
                \/ /\ sock'[h].state = "Closed"
                   /\ Did("drop", h)]_vars

C8_Witness ==
    /\ ret.op = "drop" /\ closeCalls[ret.h] = 1
    /\ origin[ret.h] = "new" /\ sock[ret.h].state = "Closed"
    /\ \E g \in Handles : origin[g] = "new" /\ sock[g].state = "Listening"

\* the last two operations were binds of two different handles g, then h, that
\* both reached the OS with the same IPv4 address and the same non-zero port
BoundSameAddress(g, h) ==
    /\ g # h
    /\ ret.op = "bind" /\ ret.h = g /\ ret.oscall = "bind"
    /\ Did("bind", h) /\ ret'.oscall = "bind"
    /\ ret'.arg = ret.arg
    /\ ret.arg.port # 0

\* C9 as claimed: of two Created handles that bind to the same address and
\* non-zero port exactly one succeeds and becomes Bound, the other fails with
\* the bind error and stays Created.
C9_ExactlyOneBinds ==
    [][\A g, h \in Handles :
          BoundSameAddress(g, h)
              => /\ (ret.res = "Ok") # (ret'.res = "Ok")
                 /\ {ret.res, ret'.res} = {"Ok", ErrBind}
                 /\ sock'[g].state = (IF ret.res = "Ok" THEN "Bound" ELSE "Created")
                 /\ sock'[h].state = (IF ret'.res = "Ok" THEN "Bound" ELSE "Created")]_vars

\* C9 amended: at most one of the two binds succeeds. If the first succeeded,
\* the second fails with the bind error and its handle stays Created, the first
\* handle stays Bound with its socket untouched, and a listen on it reaches the
\* OS, which can let it succeed. If the OS rejected the first bind, the second
\* returns Ok (handle Bound) or the bind error (handle Created).
C9_SecondBindFails ==
    [][\A g, h \in Handles :
          BoundSameAddress(g, h)
              => /\ ~(ret.res = "Ok" /\ ret'.res = "Ok")
                 /\ ret.res \in {"Ok", ErrBind} /\ ret'.res \in {"Ok", ErrBind}
                 /\ sock'[h].state = (IF ret'.res = "Ok" THEN "Bound" ELSE "Created")
                 /\ sock'[g] = sock[g]
                 /\ ret.res = "Ok"
                       => /\ ret'.res = ErrBind
                          /\ fdtab' = fdtab
                          /\ sock'[g].state = "Bound"
                          /\ ListenAllowed(sock'[g].state)
                          /\ ~OSListenMustFail(fdtab', sock'[g].fd)]_vars

C9_Witness ==
    /\ ret.op = "bind" /\ ret.res = ErrBind /\ ret.oscall = "bind" /\ ret.arg.port # 0
    /\ sock[ret.h].state = "Created"
    /\ \E g \in Handles \ {ret.h} :
          /\ Live(g) /\ sock[g].state = "Bound" /\ sock[g].fd # sock[ret.h].fd
          /\ IsOpen(fdtab, sock[g].fd) /\ fdtab[sock[g].fd].bound
          /\ fdtab[sock[g].fd].ip = ParseIpv4(ret.arg.ip)
          /\ fdtab[sock[g].fd].port = ret.arg.port

\* C10: bind on a Created handle with a string that is no dotted-decimal IPv4
\* literal returns the address-parse error, issues no OS call and leaves the
\* handle Created.
C10_MalformedAddress ==
    [][\A h \in Handles :
          (Did("bind", h) /\ sock[h].state = "Created" /\ ret'.arg.ip \in Malformed)
              => /\ ret'.res = ErrParse
                 /\ ret'.oscall = "none"
                 /\ sock' = sock /\ sock'[h].state = "Created"
                 /\ fdtab' = fdtab]_vars

C10_Witness ==
    /\ ret.op = "bind" /\ ret.res = ErrParse /\ ret.oscall = "none"
    /\ ret.arg.ip = StrTestBad
    /\ sock[ret.h].state = "Created" /\ Live(ret.h)

\* C11: when the OS call of bind or listen returns -1 the operation returns
\* that step's error and the handle is left as it was, Created after a failed
\* bind and Bound after a failed listen, so that the same call passes the state
\* check again on the same handle.
C11_OsFailureKeepsState ==
    [][\A h \in Handles :
          /\ (Did("bind", h) /\ ret'.oscall = "bind" /\ ret'.osres = -1)
                => /\ ret'.res = ErrBind
                   /\ sock' = sock /\ sock'[h].state = "Created"
                   /\ scope' = scope
                   /\ BindAllowed(sock'[h].state)
          /\ (Did("listen", h) /\ ret'.oscall = "listen" /\ ret'.osres = -1)
                => /\ ret'.res = ErrListen
                   /\ sock' = sock /\ sock'[h].state = "Bound"
                   /\ scope' = scope
                   /\ ListenAllowed(sock'[h].state)]_vars

C11_Witness ==
    /\ ret.op = "listen" /\ ret.oscall = "listen" /\ ret.osres = -1
    /\ ret.res = ErrListen
    /\ sock[ret.h].state = "Bound" /\ Live(ret.h)
    /\ IsOpen(fdtab, sock[ret.h].fd) /\ ~fdtab[sock[ret.h].fd].listening

\* C12 as stated: bind with a well-formed address and port 0 on a freshly
\* constructed handle succeeds and leaves the handle Bound.
C12_PortZeroSucceeds ==
    [][\A h \in Handles :
          (/\ Did("bind", h) /\ Live(h) /\ sock[h].state = "Created"
           /\ IsOpen(fdtab, sock[h].fd) /\ ~fdtab[sock[h].fd].bound
           /\ ret'.arg.ip \in WellFormed /\ ret'.arg.port = 0)
              => /\ ret'.res = "Ok"
                 /\ sock'[h].state = "Bound"]_vars

\* C12: bind with a well-formed address and port 0 on a Created handle is
\* never rejected by the handle itself: it reaches the OS bind call, and it
\* returns Ok and leaves the handle Bound exactly when that call returns 0;
\* otherwise it returns the bind error and the handle stays Created.
C12_PortZeroReachesOS ==
    [][\A h \in Handles :
          (/\ Did("bind", h) /\ sock[h].state = "Created"
           /\ ret'.arg.ip \in WellFormed /\ ret'.arg.port = 0)
              => /\ ret'.oscall = "bind"
                 /\ ret'.osres \in {0, -1}
                 /\ ret'.res = (IF ret'.osres = 0 THEN "Ok" ELSE ErrBind)
                 /\ sock'[h].state = (IF ret'.osres = 0 THEN "Bound" ELSE "Created")
                 /\ \A g \in Handles \ {h} : sock'[g] = sock[g]]_vars

C12_Witness ==
    /\ ret.op = "bind" /\ ret.res = "Ok" /\ ret.osres = 0 /\ ret.arg.port = 0
    /\ sock[ret.h].state = "Bound" /\ Live(ret.h)
    /\ \E g \in Handles \ {ret.h} :
          /\ Live(g) /\ sock[g].state \in {"Bound", "Listening"}
          /\ sock[g].fd # sock[ret.h].fd
          /\ IsOpen(fdtab, sock[g].fd) /\ fdtab[sock[g].fd].bound

\* C13: once an OS close has been issued on a handle's descriptor for that
\* handle, the handle's state is Closed, no OS bind, listen, accept or close is
\* issued for it again, and bind, listen and accept on it return their
\* invalid-state error.
C13_ReleasedIsClosed ==
    [][\A h \in Handles :
          (Persists(h) /\ closeCalls[h] >= 1)
              => /\ sock[h].state = "Closed"
                 /\ ret'.h = h
                       => /\ ret'.oscall = "none"
                          /\ closeCalls'[h] = closeCalls[h]
                          /\ ret'.op = "bind" => ret'.res = ErrBindState
                          /\ ret'.op = "listen" => ret'.res = ErrListenState
                          /\ ret'.op = "accept" => ret'.res = ErrAcceptState]_vars

\* the part of C13 that holds: a handle released by drop is Closed and every
\* later operation on it stays away from the OS
C13_DroppedIsClosed ==
    [][\A h \in Handles :
          (Persists(h) /\ scope[h] = "ended")
              => /\ sock[h].state = "Closed"
                 /\ ret'.h = h
                       => /\ ret'.oscall = "none"
                          /\ closeCalls'[h] = closeCalls[h]
                          /\ ret'.op = "bind" => ret'.res = ErrBindState
                          /\ ret'.op = "listen" => ret'.res = ErrListenState
                          /\ ret'.op = "accept" => ret'.res = ErrAcceptState]_vars

\* ------------------------------------------------------- scope end is certain
\* the end of the scope of a handle that has not been dropped yet
ScopeEnd(h) == scope[h] \in {"inscope", "rawclosed"} /\ Drop(h)

\* every binding goes out of scope: the compiler puts the drop call on every
\* path that leaves the owner's scope, so no handle is held for ever
FairSpec == Spec /\ \A h \in Handles : WF_vars(ScopeEnd(h))

\* every open descriptor is held by a handle whose scope has not ended
NoLeak ==
    \A f \in FDs :
        fdtab[f].open => \E h \in Handles : scope[h] \in {"inscope", "rawclosed"} /\ sock[h].fd = f

\* C14: every descriptor a successful new() or accept() acquired is
\* eventually closed, given that every handle's scope ends: at every moment
\* each descriptor is closed at some later moment and each handle's scope has
\* ended at some later moment; and no descriptor is ever open without a handle
\* in scope that holds it.
C14_EventuallyClosed ==
    /\ \A f \in FDs : []<>(~fdtab[f].open)
    /\ \A h \in Handles : []<>(Vacant(h))
    /\ []NoLeak

C14_Witness ==
    /\ ret.op = "drop" /\ ret.oscall = "close"
    /\ origin[ret.h] = "accept" /\ scope[ret.h] = "ended" /\ closeCalls[ret.h] = 1
    /\ ~IsOpen(fdtab, sock[ret.h].fd)
    /\ \E g \in Handles \ {ret.h} : Live(g) /\ sock[g].state = "Listening"

\* C15: no operation ends the process: after every operation, in every state
\* and for every OS outcome, the process is running and the operation has
\* handed its caller Ok or one of its own errors.
C15_NoTermination ==
    /\ alive
    /\ ret.op = "new" => ret.res \in {"Ok", ErrCreate}
    /\ ret.op = "bind" => ret.res \in {"Ok", ErrBindState, ErrParse, ErrBind}
    /\ ret.op = "listen" => ret.res \in {"Ok", ErrListenState, ErrListen}
    /\ ret.op = "accept" => ret.res \in {"Ok", ErrAcceptState, ErrAccept}
    /\ ret.op \in {"drop", "rawclose"} => ret.res = "Ok"
    /\ ret.op \in {"init", "new", "bind", "listen", "accept", "drop", "rawclose"}

C15_Witness ==
    /\ alive
    /\ ret.op = "accept" /\ ret.oscall = "accept" /\ ret.osres = -1 /\ ret.res = ErrAccept
    /\ \E h \in Handles : h # ret.h /\ sock[h].state = "Closed" /\ scope[h] = "ended"

\* C16: new() returns a handle in Created that holds the descriptor the OS
\* returned when the OS socket call succeeds; when the call returns -1 it
\* returns the creation error, no handle comes into being and no OS close is
\* issued.
C16_Construct ==
    [][ret'.op = "new"
          => /\ ret'.oscall = "socket"
             /\ IF ret'.osres # -1
                THEN /\ ret'.res = "Ok"
                     /\ ret'.new \in Handles /\ Vacant(ret'.new)
                     /\ sock'[ret'.new] = [fd |-> ret'.osres, state |-> "Created"]
                     /\ Opened = {ret'.osres}
                     /\ scope'[ret'.new] = "inscope" /\ closeCalls'[ret'.new] = 0
                     /\ \A g \in Handles \ {ret'.new} : sock'[g] = sock[g] /\ scope'[g] = scope[g]
                ELSE /\ ret'.res = ErrCreate
                     /\ ret'.new = 0
                     /\ sock' = sock /\ scope' = scope /\ origin' = origin
                     /\ closeCalls' = closeCalls
                     /\ fdtab' = fdtab]_vars

C16_Witness ==
    /\ ret.op = "new" /\ ret.osres = -1 /\ ret.res = ErrCreate /\ ret.new = 0
    /\ FreeFds(fdtab) # {}
    /\ \E h \in Handles : Vacant(h)

\* C17: the OS calls issued on a descriptor come in protocol order: every call
\* is issued on a descriptor that is open (none follows its close), OS bind
\* only while no bind on it has succeeded, OS listen only after a bind on it
\* succeeded and before a listen did, and OS accept only after a listen on it
\* succeeded.
C17_ProtocolOrder ==
    [][\A h \in Handles :
          (ret'.h = h /\ ret'.oscall \in {"bind", "listen", "accept", "close"})
              => /\ IsOpen(fdtab, sock[h].fd)
                 /\ closeCalls[h] = 0
                 /\ ret'.oscall = "bind" => ~fdtab[sock[h].fd].bound
                 /\ ret'.oscall = "listen"
                       => fdtab[sock[h].fd].bound /\ ~fdtab[sock[h].fd].listening
                 /\ ret'.oscall = "accept" => fdtab[sock[h].fd].listening]_vars

\* the part of C17 that the state checks do enforce, in terms of the handle's
\* own state: bind reaches the OS only from Created, listen only from Bound,
\* accept only from Listening, close only from a state other than Closed
C17_GuardedCalls ==
    [][\A h \in Handles :
          ret'.h = h
              => /\ ret'.oscall = "bind" => sock[h].state = "Created"
                 /\ ret'.oscall = "listen" => sock[h].state = "Bound"
                 /\ ret'.oscall = "accept" => sock[h].state = "Listening"
                 /\ (ret'.oscall = "close" /\ ret'.op = "drop") => sock[h].state # "Closed"]_vars

\* C18: bind, listen, accept and release on one handle leave the state and the
\* descriptor of every other handle that has not been released unchanged, and
\* that descriptor open and as it was if it was open; in particular releasing
\* an accepted handle leaves the listening handle alone and releasing the
\* listening handle leaves the accepted ones alone.
C18_Independent ==
    [][\A h, g \in Handles :
          (/\ g # h /\ ret'.h = h
           /\ ret'.op \in {"bind", "listen", "accept", "drop", "rawclose"}
           /\ Live(g) /\ Persists(g))
              => /\ sock'[g] = sock[g]
                 /\ scope'[g] = scope[g]
                 /\ IsOpen(fdtab, sock[g].fd) => fdtab'[sock[g].fd] = fdtab[sock[g].fd]]_vars

\* the part of C18 that holds: no operation on one handle changes the fields of
\* another, and while no descriptor number is held twice a release closes no
\* other handle's descriptor
C18_FieldsIndependent ==
    [][\A h, g \in Handles :
          (/\ g # h /\ ret'.h = h
           /\ ret'.op \in {"bind", "listen", "accept", "drop", "rawclose"}
           /\ Live(g) /\ Persists(g))
              => /\ sock'[g] = sock[g]
                 /\ scope'[g] = scope[g]
                 /\ (IsOpen(fdtab, sock[g].fd) /\ sock[g].fd # sock[h].fd)
                       => fdtab'[sock[g].fd] = fdtab[sock[g].fd]]_vars

\* C19: bind looks at the state before it parses the address: on a handle
\* that is not Created every bind, whatever the address string, a malformed
\* one included, can return the invalid-state error and nothing else; and a
\* bind step returns the address-parse error only from Created.
C19_StateBeforeParse ==
    /\ \A h \in Handles :
          (alive /\ Callable(h) /\ sock[h].state # "Created")
              => \A ip \in IpStrings, port \in Ports :
                    /\ ENABLED (Bind(h, ip, port) /\ ret'.res = ErrBindState)
                    /\ ~ENABLED (Bind(h, ip, port) /\ ret'.res # ErrBindState)
    /\ (ret.op = "bind" /\ ret.res = ErrParse)
          => /\ sock[ret.h].state = "Created"
             /\ ret.arg.ip \in Malformed

C19_Witness ==
    /\ ret.op = "bind" /\ ret.res = ErrBindState
    /\ sock[ret.h].state = "Bound" /\ Live(ret.h)
    /\ ENABLED (Bind(ret.h, StrTestBad, 0) /\ ret'.res = ErrBindState)

====
